---- MODULE Spec2Model ----
(***************************************************************************)
(* Multi-address shipping backend: ShopifyService (the orchestrator and    *)
(* its remote calls), the multi-address routes and the error handler.      *)
(*                                                                         *)
(* The remote platform is the state: the original order, its metafields,   *)
(* the draft orders.  A request is a stack of method frames; every action  *)
(* is one remote call (one `await this.api.*`) together with all the local *)
(* code that runs until the next remote call is issued or the request      *)
(* ends.  Strings whose characters matter (address fields, grouping keys)  *)
(* are sequences of one-character strings.                                 *)
(***************************************************************************)
EXTENDS Integers, Sequences, FiniteSets, TLC

VARIABLES
    configured,   \* SHOPIFY_STORE_URL and SHOPIFY_ACCESS_TOKEN are both set
    order,        \* the original order on the remote platform
    metafields,   \* the order's metafields, in the order the remote lists them
    drafts,       \* draft orders on the remote platform, in creation order
    nextId,       \* next identifier the remote platform hands out
    now,          \* clock: number of time-stamping requests started so far
    proc,         \* per request slot: the request being served
    hist          \* run of consecutive updateOrderAddresses calls (history)

vars == <<configured, order, metafields, drafts, nextId, now, proc, hist>>

----------------------------------------------------------------------------
(* Bounds *)

MaxOps == 2          \* requests that stamp a time, served in one behaviour
MaxItems == 2        \* line items per request body in Spec
MaxSplitItems == 3   \* line items per request body in SpecSplit

----------------------------------------------------------------------------
(* Strings *)

\* String.prototype.toLowerCase on one character
LowerChar(c) ==
    CASE c = "A" -> "a"
      [] c = "B" -> "b"
      [] c = "C" -> "c"
      [] c = "P" -> "p"
      [] c = "U" -> "u"
      [] c = "S" -> "s"
      [] OTHER -> c

ToLowerCase(s) == [i \in 1..Len(s) |-> LowerChar(s[i])]

RECURSIVE Join(_, _)
\* Array.prototype.join
Join(parts, sep) ==
    IF Len(parts) = 0 THEN <<>>
    ELSE IF Len(parts) = 1 THEN parts[1]
    ELSE parts[1] \o sep \o Join(Tail(parts), sep)

----------------------------------------------------------------------------
(* Request bodies, as validateAddressData lets them through: every field   *)
(* trimmed and non-empty, country two upper-case letters.                  *)

Address(first, a1, a2, city) ==
    [first_name |-> first, last_name |-> <<"d">>, address1 |-> a1, address2 |-> a2,
     city |-> city, province |-> <<"p">>, zip |-> <<"1">>,
     country |-> <<"U", "S">>, phone |-> <<>>]

AddrX  == Address(<<"x">>, <<"a">>, <<>>, <<"c">>)
\* AddrX again in another case, for another recipient and unit
AddrXv == Address(<<"v">>, <<"A">>, <<"2">>, <<"C">>)
\* two addresses whose fields hold the separator character
AddrP  == Address(<<"x">>, <<"a", "|", "b">>, <<>>, <<"c">>)
AddrQ  == Address(<<"x">>, <<"a">>, <<>>, <<"b", "|", "c">>)

Addrs == {AddrX, AddrXv, AddrP, AddrQ}

Item(id, addr) == [line_item_id |-> id, quantity |-> 1, address |-> addr]

\* line items of the original order; 9 is on no order
OrderLineIds == {1, 2}
LineIds == {1, 9}

SeqsUpTo(S, n) == UNION {[1..k -> S] : k \in 1..n}

\* the i-th line item of the request bodies sent in Spec
BodyItem(i) == IF i % 2 = 1 THEN Item(1, AddrX) ELSE Item(2, AddrP)

\* request bodies in Spec: the shortest body and the longest
Requests == {[i \in 1..n |-> BodyItem(i)] : n \in {1, MaxItems}}

\* request bodies of the split workflow
SplitRequests == SeqsUpTo({Item(i, a) : i \in LineIds, a \in Addrs}, MaxSplitItems)

----------------------------------------------------------------------------
(* groupLineItemsByAddress *)

\* the composite key of one line item
AddressKey(item) ==
    ToLowerCase(Join(<<item.address.address1, item.address.city, item.address.province,
                       item.address.zip, item.address.country>>, <<"|">>))

\* the position of key in groups, 0 when groups has no such property
KeyIndex(groups, key) ==
    IF \E i \in 1..Len(groups) : groups[i].key = key
    THEN CHOOSE i \in 1..Len(groups) : groups[i].key = key
    ELSE 0

\* the body of the forEach callback: groups is the object's entries in
\* insertion order (every key holds a "|", so none is an array index)
GroupPush(groups, item) ==
    LET key == AddressKey(item)
        i == KeyIndex(groups, key)
    IN IF i = 0
       THEN Append(groups, [key |-> key, items |-> <<item>>])
       ELSE [groups EXCEPT ![i].items = Append(@, item)]

RECURSIVE GroupFrom(_, _)
GroupFrom(groups, lineItems) ==
    IF Len(lineItems) = 0 THEN groups
    ELSE GroupFrom(GroupPush(groups, lineItems[1]), Tail(lineItems))

\* faulty variant: the groups come out last-seen first
groupLineItemsByAddressReversed(lineItems) ==
    [g \in 1..Len(GroupFrom(<<>>, lineItems)) |->
        GroupFrom(<<>>, lineItems)[Len(GroupFrom(<<>>, lineItems)) + 1 - g]]

groupLineItemsByAddress(lineItems) == GroupFrom(<<>>, lineItems)

----------------------------------------------------------------------------
(* The metadata envelope.  A metafield value is kept as the object that    *)
(* JSON.parse gives back for the stringified addressData; a timestamp 0    *)
(* stands for a property the object does not have.                         *)

EnvelopeNamespace == "multi_address"
EnvelopeKey == "shipping_addresses"

\* lineItems.map(item => ({line_item_id, title, quantity, shipping_address}))
EnvelopeLineItems(lineItems) ==
    [i \in 1..Len(lineItems) |->
        [line_item_id |-> lineItems[i].line_item_id,
         quantity |-> lineItems[i].quantity,
         shipping_address |-> lineItems[i].address]]

\* addressData of saveAddressesToMetafields
NewEnvelope(t, lineItems) ==
    [configured_at |-> t, updated_at |-> 0, line_items |-> EnvelopeLineItems(lineItems)]

\* faulty variant: the update stamps configured_at anew
UpdatedEnvelopeRestamped(existing, t, lineItems) ==
    [configured_at |-> t, updated_at |-> t, line_items |-> EnvelopeLineItems(lineItems)]

\* addressData of updateOrderAddresses
UpdatedEnvelope(existing, t, lineItems) ==
    [configured_at |-> existing.configured_at, updated_at |-> t,
     line_items |-> EnvelopeLineItems(lineItems)]

\* faulty variant: the key is not compared
IsEnvelopeAnyKey(mf) == mf.namespace = EnvelopeNamespace

\* mf.namespace === 'multi_address' && mf.key === 'shipping_addresses'
IsEnvelope(mf) == mf.namespace = EnvelopeNamespace /\ mf.key = EnvelopeKey

\* Array.prototype.find: the index of the first match, 0 for undefined; the
\* remote lists an order's metafields by ascending id, oldest first
FindEnvelope(mfs) ==
    IF \E i \in 1..Len(mfs) : IsEnvelope(mfs[i])
    THEN CHOOSE i \in 1..Len(mfs) :
             IsEnvelope(mfs[i]) /\ \A j \in 1..(i - 1) : ~IsEnvelope(mfs[j])
    ELSE 0

\* what getOrderAddresses returns for a listing
AddressesOf(mfs) ==
    LET i == FindEnvelope(mfs)
    IN IF i = 0
       THEN [kind |-> "addresses", addresses |-> <<>>, configured |-> FALSE,
             configured_at |-> 0, metafield_id |-> 0]
       ELSE [kind |-> "addresses", addresses |-> mfs[i].value.line_items,
             configured |-> TRUE, configured_at |-> mfs[i].value.configured_at,
             metafield_id |-> mfs[i].id]

\* a metafield some other application keeps on the order
OtherMetafield ==
    [id |-> 1, namespace |-> EnvelopeNamespace, key |-> "carrier",
     value |-> [configured_at |-> 0, updated_at |-> 0, line_items |-> <<>>]]

HasId(mfs, id) == \E i \in 1..Len(mfs) : mfs[i].id = id

\* faulty variant: the remote merges the line items sent into those it holds
PutValueMerged(mfs, id, value) ==
    [i \in 1..Len(mfs) |->
        IF mfs[i].id = id
        THEN [mfs[i] EXCEPT !.value = [value EXCEPT !.line_items =
                                          mfs[i].value.line_items \o value.line_items]]
        ELSE mfs[i]]

\* faulty variant: the value is stored in a new entry next to the old one
PutValueAsNewEntry(mfs, id, value) ==
    Append(mfs, [id |-> id + 1, namespace |-> EnvelopeNamespace, key |-> EnvelopeKey,
                 value |-> value])

\* the listing with the value of entry id replaced; namespace and key stay
PutValue(mfs, id, value) ==
    [i \in 1..Len(mfs) |-> IF mfs[i].id = id THEN [mfs[i] EXCEPT !.value = value] ELSE mfs[i]]

RECURSIVE Without(_, _)
\* the listing without entry id
Without(mfs, id) ==
    IF Len(mfs) = 0 THEN <<>>
    ELSE IF mfs[1].id = id THEN Without(Tail(mfs), id)
    ELSE <<mfs[1]>> \o Without(Tail(mfs), id)

----------------------------------------------------------------------------
(* Errors *)

NotFound == 404
BadRequest == 400
ServerError == 500

\* the error axios throws: resp is error.response.status, 0 when the
\* request got no response at all
AxiosError(resp) ==
    [name |-> "AxiosError", statusCode |-> 0, resp |-> resp,
     message |-> IF resp = 0 THEN <<"Network Error">>
                 ELSE <<"Request failed with status code">>]

ApiError(message, statusCode) ==
    [name |-> "ApiError", statusCode |-> statusCode, resp |-> 0, message |-> message]

\* originalItem.variant_id with originalItem undefined
TypeError ==
    [name |-> "TypeError", statusCode |-> 0, resp |-> 0,
     message |-> <<"Cannot read properties of undefined">>]

\* new Error(...) of the ShopifyService constructor
ConfigurationError ==
    [name |-> "Error", statusCode |-> 0, resp |-> 0,
     message |-> <<"Shopify configuration is missing">>]

NoError == [name |-> "none", statusCode |-> 0, resp |-> 0, message |-> <<>>]

\* error.response?.status || 500
StatusOr500(error) == IF error.resp # 0 THEN error.resp ELSE ServerError

Rethrow(error) == [throws |-> TRUE, error |-> error]

\* the catch block of a ShopifyService method that wraps and rethrows
CatchRethrowing(fn, error) ==
    CASE fn = "getOrder" ->
            IF error.resp = NotFound
            THEN Rethrow(ApiError(<<"Order not found">>, NotFound))
            ELSE Rethrow(ApiError(<<"Failed to fetch order: ">> \o error.message,
                                  StatusOr500(error)))
      [] fn = "saveAddressesToMetafields" ->
            Rethrow(ApiError(<<"Failed to save addresses to metafields: ">> \o error.message,
                             StatusOr500(error)))
      [] fn = "getOrderAddresses" ->
            Rethrow(ApiError(<<"Failed to fetch order addresses: ">> \o error.message,
                             StatusOr500(error)))
      [] fn = "updateOrderAddresses" ->
            Rethrow(ApiError(<<"Failed to update order addresses: ">> \o error.message,
                             StatusOr500(error)))
      [] fn = "deleteOrderAddresses" ->
            Rethrow(ApiError(<<"Failed to delete order addresses: ">> \o error.message,
                             StatusOr500(error)))
      [] fn = "splitOrderByAddress" ->
            Rethrow(ApiError(<<"Failed to split order: ">> \o error.message,
                             StatusOr500(error)))

\* console.error(...); return null
ReturnsNull == [throws |-> FALSE, error |-> NoError]

\* faulty variant: splitOrderByAddress logs the error and returns null as well
CatchSplitReturnsNull(fn, error) ==
    IF fn \in {"addOrderNote", "splitOrderByAddress"} THEN ReturnsNull
    ELSE CatchRethrowing(fn, error)

\* faulty variant: addOrderNote wraps and rethrows like every other method
CatchNoteRethrows(fn, error) ==
    IF fn = "addOrderNote"
    THEN Rethrow(ApiError(<<"Failed to add order note: ">> \o error.message,
                          StatusOr500(error)))
    ELSE CatchRethrowing(fn, error)

\* the catch block of method fn: the error it throws, or throws = FALSE
\* when it returns null instead (addOrderNote)
Catch(fn, error) ==
    IF fn = "addOrderNote" THEN ReturnsNull ELSE CatchRethrowing(fn, error)

\* faulty variant: the route answers "Order not found" for every error
RouteCatchAlwaysNotFound(error) == ApiError(<<"Order not found">>, NotFound)

\* the catch block of a route handler
RouteCatch(error) ==
    IF error.resp = NotFound THEN ApiError(<<"Order not found">>, NotFound) ELSE error

\* faulty variant: the middleware answers every error with its default message
errorHandlerDefaultMessage(err) ==
    [status |-> IF err.resp # 0 THEN err.resp
                ELSE IF err.statusCode # 0 THEN err.statusCode ELSE ServerError,
     success |-> FALSE,
     error |-> <<"Internal Server Error">>,
     message |-> "", details |-> <<>>, data |-> FALSE]

\* the response the error handler middleware sends
errorHandler(err) ==
    LET cast == IF err.name = "CastError"
                THEN ApiError(<<"Resource not found">>, NotFound) ELSE err
        shopify == IF err.resp # 0
                   THEN ApiError(<<"Shopify API error">>, err.resp) ELSE cast
    IN [status |-> IF shopify.statusCode # 0 THEN shopify.statusCode ELSE ServerError,
        success |-> FALSE,
        error |-> IF shopify.message # <<>> THEN shopify.message
                  ELSE <<"Internal Server Error">>,
        message |-> "", details |-> <<>>, data |-> FALSE]

NoResponse ==
    [status |-> 0, success |-> FALSE, error |-> <<>>, message |-> "", details |-> <<>>,
     data |-> FALSE]

\* res.json({success: true, data: ...})
JsonOk ==
    [status |-> 200, success |-> TRUE, error |-> <<>>, message |-> "", details |-> <<>>,
     data |-> TRUE]

\* res.json({success: true, message: ..., data: result}) of POST /save
SavedOk ==
    [JsonOk EXCEPT !.message = "Multi-address shipping data saved successfully"]

\* res.status(400).json({success: false, error: ..., details: ...}) of
\* POST /validate-address
InvalidAddress(details) ==
    [status |-> BadRequest, success |-> FALSE, error |-> <<"Invalid address format">>,
     message |-> "", details |-> details, data |-> FALSE]

\* res.json({success: true, message: ..., address: value}) of
\* POST /validate-address
AddressValid ==
    [status |-> 200, success |-> TRUE, error |-> <<>>,
     message |-> "Address format is valid", details |-> <<>>, data |-> TRUE]

----------------------------------------------------------------------------
(* Validation.  A schema gives the details of the errors it finds, in the  *)
(* order the schema lists its keys, and the value after conversion.  The   *)
(* bodies carry every property of an address, as strings.                  *)

RECURSIVE TrimStart(_), TrimEnd(_)
TrimStart(s) == IF s # <<>> /\ Head(s) = " " THEN TrimStart(Tail(s)) ELSE s
TrimEnd(s) ==
    IF s # <<>> /\ s[Len(s)] = " " THEN TrimEnd(SubSeq(s, 1, Len(s) - 1)) ELSE s

\* String.prototype.trim
Trim(s) == TrimEnd(TrimStart(s))

\* String.prototype.toUpperCase on one character
UpperChar(c) ==
    CASE c = "a" -> "A"
      [] c = "b" -> "B"
      [] c = "c" -> "C"
      [] c = "p" -> "P"
      [] c = "u" -> "U"
      [] c = "s" -> "S"
      [] OTHER -> c

ToUpperCase(s) == [i \in 1..Len(s) |-> UpperChar(s[i])]

Detail(path, type, message) == [path |-> path, type |-> type, message |-> message]

\* Joi.string().trim().min(lo).max(hi).required() with messages for
\* 'string.empty' and 'string.max'; maxMessage "" when the schema gives none
StringErrors(path, s, lo, hi, emptyMessage, maxMessage) ==
    IF Trim(s) = <<>> THEN <<Detail(path, "string.empty", emptyMessage)>>
    ELSE (IF Len(Trim(s)) < lo
          THEN <<Detail(path, "string.min",
                        "\"" \o path \o "\" length must be at least "
                           \o ToString(lo) \o " characters long")>>
          ELSE <<>>)
         \o (IF Len(Trim(s)) > hi
             THEN <<Detail(path, "string.max",
                           IF maxMessage # "" THEN maxMessage
                           ELSE "\"" \o path \o "\" length must be less than or equal to "
                                   \o ToString(hi) \o " characters long")>>
             ELSE <<>>)

\* Joi.string().trim().max(hi).optional().allow('')
OptionalStringErrors(path, s, hi, maxMessage) ==
    IF s # <<>> /\ Len(Trim(s)) > hi THEN <<Detail(path, "string.max", maxMessage)>>
    ELSE <<>>

\* /^[\+]?[\d\s\-\(\)\.]+$/
PhonePattern(s) ==
    LET rest == IF s # <<>> /\ Head(s) = "+" THEN Tail(s) ELSE s
    IN /\ rest # <<>>
       /\ \A i \in 1..Len(rest) :
            rest[i] \in {"0", "1", "2", "3", "4", "5", "6", "7", "8", "9",
                         " ", "-", "(", ")", "."}

\* addressSchema of the validator, on the address found at path
addressSchema(path, a) ==
    [details |->
        StringErrors(path \o "first_name", a.first_name, 1, 50,
                     "First name is required",
                     "First name must be less than 50 characters")
        \o StringErrors(path \o "last_name", a.last_name, 1, 50,
                        "Last name is required",
                        "Last name must be less than 50 characters")
        \o StringErrors(path \o "address1", a.address1, 1, 100,
                        "Address line 1 is required",
                        "Address line 1 must be less than 100 characters")
        \o OptionalStringErrors(path \o "address2", a.address2, 100,
                                "Address line 2 must be less than 100 characters")
        \o StringErrors(path \o "city", a.city, 1, 50,
                        "City is required", "City must be less than 50 characters")
        \o StringErrors(path \o "province", a.province, 1, 50,
                        "State/Province is required",
                        "State/Province must be less than 50 characters")
        \o StringErrors(path \o "zip", a.zip, 1, 20,
                        "ZIP/Postal code is required",
                        "ZIP/Postal code must be less than 20 characters")
        \o StringErrors(path \o "country", a.country, 2, 2, "Country is required", "")
        \o OptionalStringErrors(path \o "phone", a.phone, 20,
                                "Phone number must be less than 20 characters")
        \o (IF Trim(a.phone) # <<>> /\ ~PhonePattern(Trim(a.phone))
            THEN <<Detail(path \o "phone", "string.pattern.base",
                          "Phone number format is invalid")>>
            ELSE <<>>),
     value |->
        [first_name |-> Trim(a.first_name), last_name |-> Trim(a.last_name),
         address1 |-> Trim(a.address1), address2 |-> Trim(a.address2),
         city |-> Trim(a.city), province |-> Trim(a.province), zip |-> Trim(a.zip),
         country |-> ToUpperCase(Trim(a.country)), phone |-> Trim(a.phone)]]

\* Joi.number().integer().positive().required()
PositiveErrors(path, n, message) ==
    IF n > 0 THEN <<>> ELSE <<Detail(path, "number.positive", message)>>

\* lineItemSchema, on the i-th element of line_items
lineItemSchema(i, item) ==
    LET path == "line_items[" \o ToString(i - 1) \o "]."
        address == addressSchema(path \o "address.", item.address)
    IN [details |->
           PositiveErrors(path \o "line_item_id", item.line_item_id,
                          "Line item ID must be positive")
           \o PositiveErrors(path \o "quantity", item.quantity,
                             "Quantity must be positive")
           \o address.details,
        value |-> [item EXCEPT !.address = address.value]]

RECURSIVE Flatten(_)
Flatten(seqs) == IF Len(seqs) = 0 THEN <<>> ELSE Head(seqs) \o Flatten(Tail(seqs))

\* addressDataSchema; a body without the property save_method gets the default
addressDataSchema(body) ==
    [details |->
        (IF body.order_id > 0 THEN <<>>
         ELSE <<Detail("order_id", "alternatives.match",
                       "Order ID must be a valid number")>>)
        \o (IF "save_method" \in DOMAIN body
               /\ body.save_method \notin {"metafields", "split_orders"}
            THEN <<Detail("save_method", "any.only",
                          "Save method must be either \"metafields\" or \"split_orders\"")>>
            ELSE <<>>)
        \o Flatten([i \in 1..Len(body.line_items) |->
                       lineItemSchema(i, body.line_items[i]).details])
        \o (IF Len(body.line_items) < 1
            THEN <<Detail("line_items", "array.min", "At least one line item is required")>>
            ELSE <<>>),
     value |->
        [order_id |-> body.order_id,
         save_method |-> IF "save_method" \in DOMAIN body THEN body.save_method
                         ELSE "metafields",
         line_items |-> [i \in 1..Len(body.line_items) |->
                            lineItemSchema(i, body.line_items[i]).value]]]

\* addressDataSchema.validate(data, {abortEarly: false, stripUnknown: true})
validateAddressData(data) ==
    [error |-> addressDataSchema(data).details # <<>>,
     details |-> addressDataSchema(data).details,
     value |-> addressDataSchema(data).value]

\* Joi.string().required() of the schema POST /validate-address builds
RequiredErrors(path, s) ==
    IF s = <<>>
    THEN <<Detail(path, "string.empty", "\"" \o path \o "\" is not allowed to be empty")>>
    ELSE <<>>

\* addressSchema.validate(req.body) of POST /validate-address: the schema the
\* route builds, stopping at the first error
routeAddressSchema(a) ==
    LET all == RequiredErrors("first_name", a.first_name)
               \o RequiredErrors("last_name", a.last_name)
               \o RequiredErrors("address1", a.address1)
               \o RequiredErrors("city", a.city)
               \o RequiredErrors("province", a.province)
               \o RequiredErrors("zip", a.zip)
               \o RequiredErrors("country", a.country)
    IN [error |-> all # <<>>,
        details |-> IF all = <<>> THEN <<>> ELSE <<Head(all)>>,
        value |-> a]

----------------------------------------------------------------------------
(* Requests.  stack holds the frames of the methods being executed, the    *)
(* innermost last; the pc of the innermost frame names the remote call it  *)
(* is about to issue, the pc of an outer frame the call it awaits.         *)

Routes == {"GET /order/:orderId", "POST /save"}

NullValue == [kind |-> "null"]

NoAddresses ==
    [kind |-> "addresses", addresses |-> <<>>, configured |-> FALSE,
     configured_at |-> 0, metafield_id |-> 0]

NoOrder == [kind |-> "order", flagged |-> FALSE, line_items |-> {}, notes |-> <<>>]

Idle ==
    [op |-> "none", stack |-> <<>>, items |-> <<>>, t |-> 0,
     existing |-> NoAddresses, fetched |-> NoOrder, noteOrder |-> NoOrder,
     noteText |-> "", groups |-> <<>>, k |-> 0, draftId |-> 0, created |-> <<>>,
     mfId |-> 0, done |-> FALSE, ret |-> NullValue, err |-> NoError,
     http |-> NoResponse, calls |-> <<>>, body |-> NullValue, save_method |-> "",
     pre |-> [metafields |-> <<>>, notes |-> <<>>, drafts |-> <<>>]]

Top(st) == st.stack[Len(st.stack)]
Pop(st) == [st EXCEPT !.stack = SubSeq(@, 1, Len(@) - 1)]
Push(st, fn, pc) == [st EXCEPT !.stack = Append(@, [fn |-> fn, pc |-> pc])]
SetPc(st, pc) == [st EXCEPT !.stack[Len(st.stack)].pc = pc]

\* the frames a call of method fn pushes, up to its first remote call
Call(st, fn) ==
    CASE fn = "getOrder" -> Push(st, "getOrder", "get")
      [] fn = "saveAddressesToMetafields" -> Push(st, fn, "post")
      [] fn = "getOrderAddresses" -> Push(st, fn, "get")
      [] fn = "updateOrderAddresses" ->
            Push(Push(st, fn, "getOrderAddresses"), "getOrderAddresses", "get")
      [] fn = "deleteOrderAddresses" ->
            Push(Push(st, fn, "getOrderAddresses"), "getOrderAddresses", "get")
      [] fn = "splitOrderByAddress" -> Push(Push(st, fn, "getOrder"), "getOrder", "get")
      [] fn = "addOrderNote" -> Push(Push(st, fn, "getOrder"), "getOrder", "get")

ConfiguredNote == "Multi-address shipping addresses configured via portal"
SplitNote == "Order split into separate orders"

\* faulty variant: a line item that is not found is passed over
UnresolvedPassedOver(originalOrder, items) == FALSE

\* originalOrder.line_items.find(...) comes back undefined for an item
Unresolved(originalOrder, items) ==
    \E i \in 1..Len(items) : items[i].line_item_id \notin originalOrder.line_items

\* the entry pushed on createdOrders for the group just completed
CreatedOrder(st, orderId) ==
    [order_id |-> orderId, draft_order_id |-> st.draftId,
     shipping_address |-> st.groups[st.k].items[1].address,
     line_items |-> [i \in 1..Len(st.groups[st.k].items) |->
                        [line_item_id |-> st.groups[st.k].items[i].line_item_id,
                         quantity |-> st.groups[st.k].items[i].quantity]]]

SplitResult(st) ==
    [kind |-> "split", split_successful |-> TRUE, created_orders |-> st.created,
     total_split_orders |-> Len(st.created)]

SaveResult(st) ==
    [kind |-> "saved", metafield_id |-> st.mfId, addresses_saved |-> Len(st.items)]

UpdateResult(st) ==
    [kind |-> "updated", metafield_id |-> st.existing.metafield_id,
     addresses_updated |-> Len(st.items)]

NotDeleted == [kind |-> "deleted", deleted |-> FALSE, metafield_id |-> 0]

Deleted(st) ==
    [kind |-> "deleted", deleted |-> TRUE, metafield_id |-> st.existing.metafield_id]

\* faulty variant: the route saves metafields whatever save_method says
SaveWithMetafieldsOnly(save_method) == "saveAddressesToMetafields"

\* the method POST /save runs for the validated save_method
SaveWith(save_method) ==
    IF save_method = "split_orders" THEN "splitOrderByAddress"
    ELSE "saveAddressesToMetafields"

RECURSIVE Return(_, _), Throw(_, _), BeginGroup(_)

\* the innermost method returns v: run its caller up to the next remote call
Return(st, v) ==
    LET s == Pop(st) IN
    IF s.stack = <<>> THEN [s EXCEPT !.done = TRUE, !.ret = v]
    ELSE LET f == Top(s) IN
      CASE f.fn = "addOrderNote" /\ f.pc = "getOrder" ->
              SetPc([s EXCEPT !.noteOrder = v], "put")
        [] f.fn = "saveAddressesToMetafields" /\ f.pc = "addOrderNote" ->
              Return(s, SaveResult(s))
        [] f.fn = "updateOrderAddresses" /\ f.pc = "getOrderAddresses" ->
              IF ~v.configured
              THEN Call(SetPc(s, "saveAddressesToMetafields"), "saveAddressesToMetafields")
              ELSE SetPc([s EXCEPT !.existing = v], "put")
        [] f.fn = "updateOrderAddresses" /\ f.pc = "saveAddressesToMetafields" ->
              Return(s, v)
        [] f.fn = "deleteOrderAddresses" /\ f.pc = "getOrderAddresses" ->
              IF ~v.configured
              THEN Return(s, NotDeleted)
              ELSE SetPc([s EXCEPT !.existing = v], "delete")
        [] f.fn = "splitOrderByAddress" /\ f.pc = "getOrder" ->
              BeginGroup([s EXCEPT !.fetched = v,
                                   !.groups = groupLineItemsByAddress(s.items),
                                   !.created = <<>>, !.k = 1])
        [] f.fn = "splitOrderByAddress" /\ f.pc = "addOrderNote" ->
              Call(SetPc(s, "saveAddressesToMetafields"), "saveAddressesToMetafields")
        [] f.fn = "splitOrderByAddress" /\ f.pc = "saveAddressesToMetafields" ->
              Return(s, SplitResult(s))
        [] f.fn = "GET /order/:orderId" /\ f.pc = "getOrder" ->
              IF ~v.flagged
              THEN Throw(s, ApiError(
                      <<"This order is not configured for multi-address shipping">>,
                      BadRequest))
              ELSE [s EXCEPT !.stack = <<>>, !.done = TRUE, !.http = JsonOk]
        [] f.fn = "POST /save" /\ f.pc = "getOrder" ->
              IF ~v.flagged
              THEN Throw(s, ApiError(
                      <<"This order is not configured for multi-address shipping">>,
                      BadRequest))
              ELSE Call(SetPc(s, SaveWith(s.save_method)), SaveWith(s.save_method))
        [] f.fn = "POST /save" /\ f.pc \in {"splitOrderByAddress",
                                            "saveAddressesToMetafields"} ->
              [s EXCEPT !.stack = <<>>, !.done = TRUE, !.ret = v, !.http = SavedOk]

\* error is thrown inside the innermost method
Throw(st, error) ==
    LET f == Top(st)
        s == Pop(st)
    IN IF f.fn \in Routes
       THEN [s EXCEPT !.done = TRUE, !.http = errorHandler(RouteCatch(error))]
       ELSE IF ~Catch(f.fn, error).throws THEN Return(st, NullValue)
       ELSE IF s.stack = <<>>
       THEN [s EXCEPT !.done = TRUE, !.err = Catch(f.fn, error).error]
       ELSE Throw(s, Catch(f.fn, error).error)

\* the head of the for loop over the address groups, orderCounter = st.k
BeginGroup(st) ==
    IF st.k > Len(st.groups)
    THEN Call(SetPc([st EXCEPT !.noteText = SplitNote], "addOrderNote"), "addOrderNote")
    ELSE IF Unresolved(st.fetched, st.groups[st.k].items)
    THEN Throw(st, TypeError)
    ELSE SetPc(st, "draft")

----------------------------------------------------------------------------
(* The remote platform *)

\* a status the remote answers while its target is fine (rate limiting)
TransientStatuses == {429}

\* what one remote call can answer: 200, or a failure status, 0 standing
\* for a request that got no response; a missing target answers 404
Outcomes(targetExists) ==
    (IF targetExists THEN {200} ELSE {NotFound}) \cup TransientStatuses \cup {0}

\* response.data.order
OrderData ==
    [kind |-> "order", flagged |-> order.flagged, line_items |-> order.line_items,
     notes |-> order.notes]

Log(st, method, resource, arg, out) ==
    [st EXCEPT !.calls = Append(@, [m |-> method, r |-> resource, arg |-> arg, out |-> out])]

\* the frame that issues the next remote call of request slot p
Pending(p, fn, pc) ==
    /\ proc[p].stack # <<>>
    /\ Top(proc[p]).fn = fn
    /\ Top(proc[p]).pc = pc

\* the run of successful updateOrderAddresses calls, after a step of st
HistAfter(st, mfs) ==
    IF st.done /\ st.op = "updateOrderAddresses" /\ st.err = NoError
    THEN IF hist.n = 0
         THEN [n |-> 1, configured_at |-> AddressesOf(mfs).configured_at,
               metafield_id |-> AddressesOf(mfs).metafield_id, entries |-> Len(mfs)]
         ELSE [hist EXCEPT !.n = 2]
    ELSE hist

NoRun == [n |-> 0, configured_at |-> 0, metafield_id |-> 0, entries |-> 0]

Step(p, st) ==
    /\ proc' = [proc EXCEPT ![p] = st]
    /\ UNCHANGED <<configured, now>>

\* await this.api.get(`/orders/${orderId}.json`)
GetOrderCall(p) ==
    /\ Pending(p, "getOrder", "get")
    /\ \E out \in Outcomes(order.exists) :
         LET st == Log(proc[p], "GET", "order", 0, out)
         IN Step(p, IF out = 200 THEN Return(st, OrderData) ELSE Throw(st, AxiosError(out)))
    /\ UNCHANGED <<order, metafields, drafts, nextId, hist>>

\* await this.api.post(`/orders/${orderId}/metafields.json`, metafield)
PostMetafield(p) ==
    /\ Pending(p, "saveAddressesToMetafields", "post")
    /\ \E out \in Outcomes(order.exists) :
         LET st == Log(proc[p], "POST", "metafields", 0, out)
         IN IF out = 200
            THEN /\ metafields' = Append(metafields,
                        [id |-> nextId, namespace |-> EnvelopeNamespace,
                         key |-> EnvelopeKey, value |-> NewEnvelope(st.t, st.items)])
                 /\ nextId' = nextId + 1
                 /\ Step(p, Call(SetPc([st EXCEPT !.mfId = nextId, !.noteText = ConfiguredNote],
                                       "addOrderNote"), "addOrderNote"))
            ELSE /\ Step(p, Throw(st, AxiosError(out)))
                 /\ UNCHANGED <<metafields, nextId>>
    /\ hist' = HistAfter(proc'[p], metafields')
    /\ UNCHANGED <<order, drafts>>

\* await this.api.get(`/orders/${orderId}/metafields.json`)
GetMetafields(p) ==
    /\ Pending(p, "getOrderAddresses", "get")
    /\ \E out \in Outcomes(order.exists) :
         LET st == Log(proc[p], "GET", "metafields", 0, out)
         IN Step(p, IF out = 200 THEN Return(st, AddressesOf(metafields))
                    ELSE Throw(st, AxiosError(out)))
    /\ hist' = HistAfter(proc'[p], metafields)
    /\ UNCHANGED <<order, metafields, drafts, nextId>>

\* await this.api.put(`/orders/${orderId}/metafields/${id}.json`, metafieldUpdate)
PutMetafield(p) ==
    /\ Pending(p, "updateOrderAddresses", "put")
    /\ LET id == proc[p].existing.metafield_id
       IN \E out \in Outcomes(order.exists /\ HasId(metafields, id)) :
            LET st == Log(proc[p], "PUT", "metafields", id, out)
            IN IF out = 200
               THEN /\ metafields' = PutValue(metafields, id,
                                              UpdatedEnvelope(st.existing, st.t, st.items))
                    /\ Step(p, Return(st, UpdateResult(st)))
               ELSE /\ Step(p, Throw(st, AxiosError(out)))
                    /\ UNCHANGED metafields
    /\ hist' = HistAfter(proc'[p], metafields')
    /\ UNCHANGED <<order, drafts, nextId>>

\* await this.api.delete(`/orders/${orderId}/metafields/${id}.json`)
DeleteMetafield(p) ==
    /\ Pending(p, "deleteOrderAddresses", "delete")
    /\ LET id == proc[p].existing.metafield_id
       IN \E out \in Outcomes(order.exists /\ HasId(metafields, id)) :
            LET st == Log(proc[p], "DELETE", "metafields", id, out)
            IN IF out = 200
               THEN /\ metafields' = Without(metafields, id)
                    /\ Step(p, Return(st, Deleted(st)))
               ELSE /\ Step(p, Throw(st, AxiosError(out)))
                    /\ UNCHANGED metafields
    /\ UNCHANGED <<order, drafts, nextId, hist>>

\* await this.api.post('/draft_orders.json', draftOrder)
PostDraftOrder(p) ==
    /\ Pending(p, "splitOrderByAddress", "draft")
    /\ \E out \in Outcomes(TRUE) :
         LET st == Log(proc[p], "POST", "draft_orders", proc[p].k, out)
         IN IF out = 200
            THEN /\ drafts' = Append(drafts,
                        [id |-> nextId, order_id |-> 0, part |-> st.k,
                         shipping_address |-> st.groups[st.k].items[1].address,
                         line_items |-> [i \in 1..Len(st.groups[st.k].items) |->
                              [variant_id |-> st.groups[st.k].items[i].line_item_id,
                               quantity |-> st.groups[st.k].items[i].quantity]]])
                 /\ nextId' = nextId + 1
                 /\ Step(p, SetPc([st EXCEPT !.draftId = nextId], "complete"))
            ELSE /\ Step(p, Throw(st, AxiosError(out)))
                 /\ UNCHANGED <<drafts, nextId>>
    /\ UNCHANGED <<order, metafields, hist>>

\* await this.api.put(`/draft_orders/${draftOrderId}/complete.json`, ...)
CompleteDraftOrder(p) ==
    /\ Pending(p, "splitOrderByAddress", "complete")
    /\ \E out \in Outcomes(TRUE) :
         LET st == Log(proc[p], "PUT", "draft_orders", proc[p].draftId, out)
         IN IF out = 200
            THEN /\ drafts' = [i \in 1..Len(drafts) |->
                                 IF drafts[i].id = st.draftId
                                 THEN [drafts[i] EXCEPT !.order_id = nextId] ELSE drafts[i]]
                 /\ nextId' = nextId + 1
                 /\ Step(p, BeginGroup([st EXCEPT
                              !.created = Append(@, CreatedOrder(st, nextId)),
                              !.k = @ + 1]))
            ELSE /\ Step(p, Throw(st, AxiosError(out)))
                 /\ UNCHANGED <<drafts, nextId>>
    /\ UNCHANGED <<order, metafields, hist>>

\* await this.api.put(`/orders/${orderId}.json`, {order: {id, note: newNote}})
PutOrderNote(p) ==
    /\ Pending(p, "addOrderNote", "put")
    /\ \E out \in Outcomes(order.exists) :
         LET st == Log(proc[p], "PUT", "order", 0, out)
         IN IF out = 200
            THEN /\ order' = [order EXCEPT !.notes =
                                Append(st.noteOrder.notes, [t |-> st.t, text |-> st.noteText])]
                 /\ Step(p, Return(st, [OrderData EXCEPT !.notes = order'.notes]))
            ELSE /\ Step(p, Throw(st, AxiosError(out)))
                 /\ UNCHANGED order
    /\ hist' = HistAfter(proc'[p], metafields)
    /\ UNCHANGED <<metafields, drafts, nextId>>

----------------------------------------------------------------------------
(* Requests arriving *)

SeqProcs == {1}

\* slot p is free
Free(p) == proc[p].stack = <<>>

\* slot p is free and the behaviour has room for one more stamping request
CanStart(p) == Free(p) /\ now < MaxOps

\* the request record of a fresh call of op at time t
Begin(op, items, t) ==
    [Idle EXCEPT !.op = op, !.items = items, !.t = t,
                 !.pre = [metafields |-> metafields, notes |-> order.notes,
                          drafts |-> drafts]]

\* a request that stamps what it writes starts at the clock's next tick
Start(p, st) ==
    /\ proc' = [proc EXCEPT ![p] = st]
    /\ now' = now + 1
    /\ UNCHANGED <<configured, order, metafields, drafts, nextId>>

\* a request that stamps nothing on the remote leaves the clock alone
StartRead(p, st) ==
    /\ proc' = [proc EXCEPT ![p] = st]
    /\ UNCHANGED <<configured, order, metafields, drafts, nextId, now>>

\* shopifyService.getOrder(orderId)
InvokeGetOrder(p) ==
    /\ Free(p) /\ configured
    /\ StartRead(p, Call(Begin("getOrder", <<>>, now), "getOrder"))
    /\ UNCHANGED hist

\* shopifyService.saveAddressesToMetafields(orderId, lineItems)
InvokeSave(p) ==
    /\ CanStart(p) /\ configured
    /\ \E items \in Requests :
         Start(p, Call(Begin("saveAddressesToMetafields", items, now + 1), "saveAddressesToMetafields"))
    /\ hist' = NoRun

\* shopifyService.getOrderAddresses(orderId)
InvokeGetAddresses(p) ==
    /\ Free(p) /\ configured
    /\ StartRead(p, Call(Begin("getOrderAddresses", <<>>, now), "getOrderAddresses"))
    /\ UNCHANGED hist

\* shopifyService.updateOrderAddresses(orderId, lineItems)
InvokeUpdate(p) ==
    /\ CanStart(p) /\ configured
    /\ \E items \in Requests :
         Start(p, Call(Begin("updateOrderAddresses", items, now + 1), "updateOrderAddresses"))
    /\ UNCHANGED hist

\* shopifyService.deleteOrderAddresses(orderId)
InvokeDelete(p) ==
    /\ Free(p) /\ configured
    /\ StartRead(p, Call(Begin("deleteOrderAddresses", <<>>, now), "deleteOrderAddresses"))
    /\ hist' = NoRun

\* shopifyService.splitOrderByAddress(orderId, lineItems), lineItems from bodies
InvokeSplit(p, bodies) ==
    /\ CanStart(p) /\ configured
    /\ \E items \in bodies :
         Start(p, Call(Begin("splitOrderByAddress", items, now + 1), "splitOrderByAddress"))
    /\ hist' = NoRun

\* shopifyService.addOrderNote(orderId, note)
InvokeAddOrderNote(p) ==
    /\ CanStart(p) /\ configured
    /\ Start(p, Call([Begin("addOrderNote", <<>>, now + 1) EXCEPT !.noteText = ConfiguredNote],
                     "addOrderNote"))
    /\ UNCHANGED hist

\* GET /api/multi-address/order/:orderId, up to its first remote call
RouteGetOrder(p) ==
    /\ Free(p)
    /\ LET st == Push(Begin("GET /order/:orderId", <<>>, now), "GET /order/:orderId", "getOrder")
       IN StartRead(p, IF configured THEN Call(st, "getOrder")
                   ELSE Throw(st, ConfigurationError))
    /\ UNCHANGED hist

\* an address with a three-letter country, and one whose country the
\* validator converts
AddrUsa == [AddrX EXCEPT !.country = <<"u", "s", "a">>]
AddrPadded == [AddrX EXCEPT !.country = <<" ", "u", "s">>]

\* req.body of POST /save, with and without the property save_method
SaveLineItems == Requests \cup {<<>>, <<Item(1, AddrUsa)>>, <<Item(1, AddrPadded)>>}
SaveBodies ==
    {[order_id |-> o, line_items |-> l] : o \in {1001, 0}, l \in SaveLineItems}
    \cup {[order_id |-> o, line_items |-> l, save_method |-> m] :
             o \in {1001, 0}, l \in SaveLineItems,
             m \in {"metafields", "split_orders", "both"}}

\* POST /api/multi-address/save, up to its first remote call
RoutePostSave(p) ==
    /\ CanStart(p)
    /\ \E body \in SaveBodies :
         LET v == validateAddressData(body)
             st == Push([Begin("POST /save", v.value.line_items, now + 1) EXCEPT
                            !.body = body, !.save_method = v.value.save_method],
                        "POST /save", "getOrder")
         IN Start(p, IF v.error
                     THEN [st EXCEPT
                             !.stack = <<>>, !.done = TRUE,
                             !.http = errorHandler(ApiError(
                                 <<"Validation error: ">>
                                    \o Join([i \in 1..Len(v.details) |->
                                                <<v.details[i].message>>], <<", ">>),
                                 BadRequest))]
                     ELSE IF configured THEN Call(st, "getOrder")
                     ELSE Throw(st, ConfigurationError))
    /\ hist' = NoRun

\* req.body of POST /validate-address
ValidateBodies ==
    {[AddrX EXCEPT !.first_name = f, !.country = c] :
        f \in {<<"x">>, <<>>},
        c \in {<<"U", "S">>, <<"u", "s", "a">>, <<"u">>, <<>>}}

\* POST /api/multi-address/validate-address
RouteValidateAddress(p) ==
    /\ Free(p)
    /\ \E a \in ValidateBodies :
         LET v == routeAddressSchema(a)
         IN StartRead(p, [Begin("POST /validate-address", <<>>, now) EXCEPT
                            !.body = a, !.done = TRUE,
                            !.http = IF v.error
                                     THEN InvalidAddress([i \in 1..Len(v.details) |->
                                                             v.details[i].message])
                                     ELSE AddressValid])
    /\ UNCHANGED hist

----------------------------------------------------------------------------
(* Specifications *)

Init ==
    /\ configured \in BOOLEAN
    /\ order \in {[exists |-> FALSE, flagged |-> FALSE, line_items |-> {}, notes |-> <<>>],
                  [exists |-> TRUE, flagged |-> FALSE, line_items |-> OrderLineIds,
                   notes |-> <<>>],
                  [exists |-> TRUE, flagged |-> TRUE, line_items |-> OrderLineIds,
                   notes |-> <<>>]}
    /\ metafields = (IF order.exists THEN <<OtherMetafield>> ELSE <<>>)
    /\ drafts = <<>>
    /\ nextId = 2
    /\ now = 0
    /\ proc = [p \in SeqProcs |-> Idle]
    /\ hist = NoRun

RemoteCall(p) ==
    \/ GetOrderCall(p)
    \/ PostMetafield(p)
    \/ GetMetafields(p)
    \/ PutMetafield(p)
    \/ DeleteMetafield(p)
    \/ PostDraftOrder(p)
    \/ CompleteDraftOrder(p)
    \/ PutOrderNote(p)

\* requests served one after another
Next ==
    \E p \in SeqProcs :
        \/ InvokeGetOrder(p)
        \/ InvokeSave(p)
        \/ InvokeGetAddresses(p)
        \/ InvokeUpdate(p)
        \/ InvokeDelete(p)
        \/ InvokeSplit(p, Requests)
        \/ InvokeAddOrderNote(p)
        \/ RouteGetOrder(p)
        \/ RemoteCall(p)

Spec == Init /\ [][Next]_vars

\* one splitOrderByAddress call on an existing order
InitSplit == Init /\ configured /\ order.exists

NextSplit ==
    \E p \in SeqProcs :
        \/ (now = 0 /\ InvokeSplit(p, SplitRequests))
        \/ GetOrderCall(p)
        \/ PostDraftOrder(p)
        \/ CompleteDraftOrder(p)
        \/ PutOrderNote(p)
        \/ PostMetafield(p)

SpecSplit == InitSplit /\ [][NextSplit]_vars

\* one POST /save, and any number of POST /validate-address
NextRoutes ==
    \E p \in SeqProcs :
        \/ (now = 0 /\ RoutePostSave(p))
        \/ RouteValidateAddress(p)
        \/ GetOrderCall(p)
        \/ PostMetafield(p)
        \/ PostDraftOrder(p)
        \/ CompleteDraftOrder(p)
        \/ PutOrderNote(p)

SpecRoutes == Init /\ [][NextRoutes]_vars

\* two requests for one order in flight at once: the handlers of two HTTP
\* requests interleave at every await
ConcProcs == {1, 2}

\* the order as one saveAddressesToMetafields call at time 1 left it
SavedOnce(items) ==
    <<OtherMetafield,
      [id |-> 2, namespace |-> EnvelopeNamespace, key |-> EnvelopeKey,
       value |-> NewEnvelope(1, items)]>>

\* an order with no envelope, or with the one envelope of an earlier save
InitConc ==
    /\ configured = TRUE
    /\ metafields \in {<<OtherMetafield>>} \cup {SavedOnce(items) : items \in Requests}
    /\ order = [exists |-> TRUE, flagged |-> TRUE, line_items |-> OrderLineIds,
                notes |-> IF Len(metafields) = 1 THEN <<>>
                          ELSE <<[t |-> 1, text |-> ConfiguredNote]>>]
    /\ drafts = <<>>
    /\ nextId = 3
    /\ now = 1
    /\ proc = [p \in ConcProcs |-> Idle]
    /\ hist = NoRun

\* slot p has served no request yet
Fresh(p) == proc[p].op = "none"

\* updateOrderAddresses called while the other slot may be in flight
ConcurrentUpdate(p) ==
    /\ Fresh(p)
    /\ \E items \in Requests :
         Start(p, Call(Begin("updateOrderAddresses", items, now + 1), "updateOrderAddresses"))
    /\ UNCHANGED hist

\* saveAddressesToMetafields called while the other slot may be in flight
ConcurrentSave(p) ==
    /\ Fresh(p)
    /\ \E items \in Requests :
         Start(p, Call(Begin("saveAddressesToMetafields", items, now + 1),
                       "saveAddressesToMetafields"))
    /\ UNCHANGED hist

\* slot 1 serves an update, slot 2 an update or a save
NextConc ==
    \/ ConcurrentUpdate(1)
    \/ ConcurrentUpdate(2)
    \/ ConcurrentSave(2)
    \/ \E p \in ConcProcs :
          \/ GetMetafields(p)
          \/ PutMetafield(p)
          \/ PostMetafield(p)
          \/ GetOrderCall(p)
          \/ PutOrderNote(p)

SpecConc == InitConc /\ [][NextConc]_vars

----------------------------------------------------------------------------
(* Properties.  req is the request of slot 1: the one being served, or the *)
(* one that ended last.                                                    *)

req == proc[1]

Ended(op) == req.done /\ req.op = op

Succeeded == req.err = NoError

\* the entries of a listing that are envelopes, stated on the entries' fields
EnvelopeEntries(mfs) ==
    {i \in 1..Len(mfs) :
        mfs[i].namespace = "multi_address" /\ mfs[i].key = "shipping_addresses"}

\* the envelope a reader of the listing meets first
FirstEnvelope(mfs) == mfs[CHOOSE i \in EnvelopeEntries(mfs) :
                              \A j \in EnvelopeEntries(mfs) : i <= j]

FailedCalls == {i \in 1..Len(req.calls) : req.calls[i].out # 200}

CallsOf(method, resource) ==
    {i \in 1..Len(req.calls) : req.calls[i].m = method /\ req.calls[i].r = resource}

\* C1: in a run of two or more successful updateOrderAddresses calls on one
\* order, with no save, delete or split between them, the envelope after
\* every later call carries the configured_at the first call stored, in the
\* same entry; only updated_at and line_items change.
C1_ConfiguredAtPreserved ==
    (Ended("updateOrderAddresses") /\ Succeeded /\ hist.n = 2) =>
        /\ EnvelopeEntries(metafields) # {}
        /\ FirstEnvelope(metafields).value.configured_at = hist.configured_at
        /\ FirstEnvelope(metafields).id = hist.metafield_id
        /\ FirstEnvelope(metafields).value.updated_at = req.t
        /\ FirstEnvelope(metafields).value.line_items = EnvelopeLineItems(req.items)
        /\ Len(metafields) = hist.entries

\* a later update has ended, after the clock moved on from the first one
C1_Witness ==
    /\ Ended("updateOrderAddresses") /\ Succeeded /\ hist.n = 2
    /\ hist.configured_at # 0
    /\ hist.configured_at < req.t

\* C2: a successful saveAddressesToMetafields of a list with at least one
\* item, followed at once by getOrderAddresses, yields configured = true, a
\* configured_at that is set, and as many line items as were just saved.
C2_SaveThenFetch ==
    (Ended("saveAddressesToMetafields") /\ Succeeded /\ Len(req.items) >= 1) =>
        /\ AddressesOf(metafields).configured
        /\ AddressesOf(metafields).configured_at # 0
        /\ Len(AddressesOf(metafields).addresses) = Len(req.items)

\* C3: when the listing is read and holds no multi_address /
\* shipping_addresses entry, deleteOrderAddresses returns deleted = false,
\* raises nothing, issues no remote delete and leaves the entries alone.
C3_DeleteWithoutEnvelope ==
    (/\ Ended("deleteOrderAddresses")
     /\ Len(req.calls) >= 1 /\ req.calls[1].r = "metafields" /\ req.calls[1].out = 200
     /\ EnvelopeEntries(req.pre.metafields) = {}) =>
        /\ Succeeded
        /\ req.ret.kind = "deleted" /\ ~req.ret.deleted
        /\ CallsOf("DELETE", "metafields") = {}
        /\ Len(req.calls) = 1
        /\ metafields = req.pre.metafields

\* a delete has ended on an order whose only metafield is another one
C3_Witness ==
    /\ Ended("deleteOrderAddresses")
    /\ Len(req.calls) >= 1 /\ req.calls[1].out = 200
    /\ EnvelopeEntries(req.pre.metafields) = {}
    /\ Len(req.pre.metafields) = 1
    /\ req.ret.kind = "deleted"

\* C4: after any sequence of save, update and split calls, a
\* deleteOrderAddresses that returns deleted = true leaves no envelope: a
\* getOrderAddresses right after it reports configured = false and no
\* addresses.
C4_DeleteRemovesEnvelope ==
    (Ended("deleteOrderAddresses") /\ Succeeded /\ req.ret.kind = "deleted"
     /\ req.ret.deleted) =>
        /\ ~AddressesOf(metafields).configured
        /\ AddressesOf(metafields).addresses = <<>>

\* the (address1, city, province, zip, country) tuple of a line item,
\* compared without regard to case
AddressTuple(item) ==
    <<ToLowerCase(item.address.address1), ToLowerCase(item.address.city),
      ToLowerCase(item.address.province), ToLowerCase(item.address.zip),
      ToLowerCase(item.address.country)>>

DistinctTuples(items) == {AddressTuple(items[i]) : i \in 1..Len(items)}

\* the position in items of the first line item with tuple t
FirstSeen(items, t) ==
    CHOOSE i \in 1..Len(items) :
        AddressTuple(items[i]) = t /\ \A j \in 1..(i - 1) : AddressTuple(items[j]) # t

\* splitOrderByAddress has fetched the order and grouped its line items
Grouped ==
    /\ req.op = "splitOrderByAddress"
    /\ Len(req.calls) >= 1 /\ req.calls[1].out = 200

\* C5: for N line items with K distinct address tuples (compared without
\* regard to case) groupLineItemsByAddress returns K groups, in first-seen
\* order of their tuples, each group holding exactly the line items of its
\* tuple in their input order.
C5_GroupsAreTuples ==
    Grouped =>
        /\ Len(req.groups) = Cardinality(DistinctTuples(req.items))
        /\ \A g \in 1..Len(req.groups) :
             req.groups[g].items =
                SelectSeq(req.items,
                          LAMBDA x : AddressTuple(x) = AddressTuple(req.groups[g].items[1]))
        /\ \A g, h \in 1..Len(req.groups) :
             g < h => FirstSeen(req.items, AddressTuple(req.groups[g].items[1]))
                        < FirstSeen(req.items, AddressTuple(req.groups[h].items[1]))

RECURSIVE SumLineItems(_)
SumLineItems(created) ==
    IF Len(created) = 0 THEN 0
    ELSE Len(created[1].line_items) + SumLineItems(Tail(created))

\* C6: when every remote call succeeds and every line item is on the
\* original order, splitOrderByAddress of N line items over K distinct
\* addresses returns split_successful = true, K created orders,
\* total_split_orders = K, and N line items over all created orders.
C6_SplitCounts ==
    (/\ Ended("splitOrderByAddress") /\ FailedCalls = {}
     /\ \A i \in 1..Len(req.items) : req.items[i].line_item_id \in order.line_items) =>
        /\ Succeeded
        /\ req.ret.kind = "split" /\ req.ret.split_successful
        /\ Len(req.ret.created_orders) = Cardinality(DistinctTuples(req.items))
        /\ req.ret.total_split_orders = Cardinality(DistinctTuples(req.items))
        /\ SumLineItems(req.ret.created_orders) = Len(req.items)

\* the call splitOrderByAddress issued last was a draft order create or
\* complete, and it failed
DraftCallFailed ==
    /\ Ended("splitOrderByAddress")
    /\ Len(req.calls) >= 1
    /\ req.calls[Len(req.calls)].r = "draft_orders"
    /\ req.calls[Len(req.calls)].out # 200

\* C7: if the draft order create or complete of the k-th group fails, the
\* split fails with an error and returns no result; no call is retried, no
\* draft is created for a later group, the orders completed for groups
\* 1..k-1 (and a draft created for group k) stay on the remote with no
\* delete, and neither note nor envelope is written to the original order.
C7_SplitAbortsWithoutRollback ==
    DraftCallFailed =>
        /\ ~Succeeded /\ req.ret = NullValue
        /\ FailedCalls = {Len(req.calls)}
        /\ \A i, j \in 1..Len(req.calls) :
             (i < j /\ req.calls[i].m = req.calls[j].m /\ req.calls[i].r = req.calls[j].r)
                => req.calls[i].arg # req.calls[j].arg
        /\ \A i \in CallsOf("POST", "draft_orders") : req.calls[i].arg <= req.k
        /\ Len(drafts) = Len(req.pre.drafts) + IF req.calls[Len(req.calls)].m = "PUT"
                                               THEN req.k ELSE req.k - 1
        /\ \A d \in 1..Len(drafts) :
             d > Len(req.pre.drafts) =>
                /\ drafts[d].part = d - Len(req.pre.drafts)
                /\ (drafts[d].order_id # 0) <=> (drafts[d].part < req.k)
        /\ \A i \in 1..Len(req.calls) : req.calls[i].m # "DELETE"
        /\ CallsOf("PUT", "order") = {} /\ CallsOf("POST", "metafields") = {}
        /\ order.notes = req.pre.notes
        /\ metafields = req.pre.metafields

\* the complete call of the second group failed after the first group's
\* order was created
C7_Witness ==
    /\ DraftCallFailed
    /\ req.k = 2
    /\ req.calls[Len(req.calls)].m = "PUT"
    /\ Len(drafts) = 2 /\ drafts[1].order_id # 0 /\ drafts[2].order_id = 0

\* calls of addOrderNote: the order fetch or the order update it makes
NoteCalls == {i \in 1..Len(req.calls) : req.calls[i].r = "order" /\ i > 1}

\* C8: a failure inside addOrderNote never fails the operation that asked
\* for the note: saveAddressesToMetafields returns its result once the
\* envelope was written, splitOrderByAddress goes on to save the envelope and
\* returns the split result once all groups completed, and addOrderNote
\* itself returns null instead of raising.
C8_NoteFailureSwallowed ==
    /\ (Ended("saveAddressesToMetafields") /\ req.calls[1].out = 200) =>
          /\ Succeeded /\ req.ret.kind = "saved"
          /\ \E i \in 1..Len(metafields) : metafields[i].id = req.ret.metafield_id
    /\ (/\ Ended("splitOrderByAddress") /\ Grouped
        /\ Cardinality({i \in CallsOf("PUT", "draft_orders") : req.calls[i].out = 200})
             = Len(req.groups)) =>
          /\ CallsOf("POST", "metafields") # {}
          /\ (\A i \in CallsOf("POST", "metafields") : req.calls[i].out = 200) =>
                (Succeeded /\ req.ret.kind = "split")
    /\ Ended("addOrderNote") =>
          /\ Succeeded
          /\ FailedCalls # {} => req.ret = NullValue

\* a split whose summary note failed has saved the envelope and returned
C8_Witness ==
    /\ Ended("splitOrderByAddress") /\ Succeeded /\ req.ret.kind = "split"
    /\ \E i \in FailedCalls : i < CHOOSE j \in CallsOf("POST", "metafields") : TRUE
    /\ Len(metafields) = Len(req.pre.metafields) + 1

\* C9: when a remote call outside addOrderNote fails with HTTP status S, the
\* error the operation raises carries status code S, also when the call was
\* made by a nested method.
C9_StatusPropagates ==
    (/\ req.done /\ ~Succeeded
     /\ Len(req.calls) >= 1
     /\ req.calls[Len(req.calls)].out \notin {200, 0}) =>
        req.err.statusCode = req.calls[Len(req.calls)].out

\* the remote answered the order fetch of GET /order/:orderId with 404
OrderAbsent ==
    /\ Ended("GET /order/:orderId")
    /\ Len(req.calls) = 1 /\ req.calls[1].out = 404

\* the order fetch of GET /order/:orderId found an order that is not flagged
OrderNotFlagged ==
    /\ Ended("GET /order/:orderId")
    /\ Len(req.calls) = 1 /\ req.calls[1].out = 200
    /\ ~order.flagged

\* C10 as stated: GET /order/:orderId answers 404, without order data, both
\* when the order does not exist and when it is not flagged.
C10_NotFoundInBothCases ==
    (OrderAbsent \/ OrderNotFlagged) => (req.http.status = 404 /\ ~req.http.data)

\* C10 amended: GET /order/:orderId answers 404 when the remote reports the
\* order absent and 400 when the order exists but is not flagged; in neither
\* case is order data returned.
C10_NotFoundOrBadRequest ==
    /\ OrderAbsent => (req.http.status = 404 /\ ~req.http.success /\ ~req.http.data)
    /\ OrderNotFlagged => (req.http.status = 400 /\ ~req.http.success /\ ~req.http.data)

\* the route has answered for an order that is not flagged
C10_Witness == OrderNotFlagged /\ req.http.status = 400

\* C11: for an existing order that is not flagged multi_address_shipping=yes,
\* GET /order/:orderId answers with status 400 and the error message "This
\* order is not configured for multi-address shipping", and with no order
\* summary.
C11_NotFlaggedIsBadRequest ==
    OrderNotFlagged =>
        /\ req.http.status = BadRequest
        /\ req.http.error = <<"This order is not configured for multi-address shipping">>
        /\ ~req.http.success
        /\ ~req.http.data

\* the route has sent its error message for an existing, unflagged order
C11_Witness ==
    /\ OrderNotFlagged /\ order.exists
    /\ req.http.error = <<"This order is not configured for multi-address shipping">>

\* POST /save has validated its body, found the order and found it flagged
SavePassed ==
    /\ req.op = "POST /save"
    /\ ~validateAddressData(req.body).error
    /\ Len(req.calls) >= 1 /\ req.calls[1].out = 200
    /\ order.flagged

\* POST /save has called splitOrderByAddress: the method is running, or the
\* call after the route's order fetch was the order fetch of the split
RanSplit ==
    \/ Len(req.stack) >= 2 /\ req.stack[2].fn = "splitOrderByAddress"
    \/ Len(req.calls) >= 2 /\ req.calls[2].m = "GET" /\ req.calls[2].r = "order"

\* POST /save has called saveAddressesToMetafields itself
RanSave ==
    \/ Len(req.stack) >= 2 /\ req.stack[2].fn = "saveAddressesToMetafields"
    \/ Len(req.calls) >= 2 /\ req.calls[2].m = "POST" /\ req.calls[2].r = "metafields"

\* C12: POST /save runs splitOrderByAddress exactly when the validated
\* save_method is "split_orders" and saveAddressesToMetafields otherwise
\* (save_method "metafields" or left out); it runs neither and issues no
\* remote write when the body fails validation, when the order does not
\* exist or when the order is not flagged.
C12_SaveMethodDispatch ==
    req.op = "POST /save" =>
        /\ RanSplit <=>
              (/\ SavePassed
               /\ "save_method" \in DOMAIN req.body
               /\ req.body.save_method = "split_orders")
        /\ RanSave <=>
              (/\ SavePassed
               /\ ("save_method" \in DOMAIN req.body => req.body.save_method = "metafields"))
        /\ ~SavePassed =>
              /\ ~RanSplit /\ ~RanSave
              /\ \A i \in 1..Len(req.calls) : req.calls[i].m = "GET"
              /\ metafields = req.pre.metafields
              /\ order.notes = req.pre.notes
              /\ drafts = req.pre.drafts

\* POST /save has answered 200 for a body asking for split_orders, after
\* running the split
C12_Witness ==
    /\ req.op = "POST /save" /\ req.done
    /\ "save_method" \in DOMAIN req.body /\ req.body.save_method = "split_orders"
    /\ RanSplit
    /\ req.http.status = 200
    /\ drafts # <<>>

\* C13: POST /validate-address answers 400, with a detail citing the
\* 2-letter country code requirement, for every address whose country is not
\* exactly two letters, also when every other field is valid; it never
\* answers 200 "Address format is valid" for such an address.
C13_CountryCodeEnforced ==
    (req.op = "POST /validate-address" /\ req.done /\ Len(req.body.country) # 2) =>
        /\ req.http.status = BadRequest
        /\ req.http.message # "Address format is valid"
        /\ \E i \in 1..Len(req.http.details) :
              req.http.details[i] = "Country must be a 2-letter country code (e.g., US, CA)"

\* every remote call of the request of slot p was answered with success
AllCallsOk(p) == \A i \in 1..Len(proc[p].calls) : proc[p].calls[i].out = 200

\* the remote applies the in-place update of slot p in this step
PutApplied(p) ==
    /\ Pending(p, "updateOrderAddresses", "put")
    /\ Len(proc'[p].calls) = Len(proc[p].calls) + 1
    /\ proc'[p].calls[Len(proc'[p].calls)].m = "PUT"
    /\ proc'[p].calls[Len(proc'[p].calls)].out = 200

\* a step of updateOrderAddresses calls, one or two in flight, on an order
\* with one envelope
UpdatesOnOneEnvelope ==
    /\ Cardinality(EnvelopeEntries(metafields)) = 1
    /\ \A p \in ConcProcs :
          \/ proc'[p].op = "none"
          \/ /\ proc'[p].op = "updateOrderAddresses"
             /\ Cardinality(EnvelopeEntries(proc'[p].pre.metafields)) = 1

\* C14: for two updateOrderAddresses calls running concurrently on an order
\* with exactly one envelope, under every interleaving of their remote
\* calls: both complete without error (when the remote answers every call),
\* the order keeps exactly one envelope entry with the same id and the
\* original configured_at, and every in-place update that is applied sets
\* line_items to exactly the line items of its own call, so that the
\* envelope ends with those of the update applied last, never a merge.
C14_LastWriterWins ==
    [][UpdatesOnOneEnvelope =>
         /\ Cardinality(EnvelopeEntries(metafields')) = 1
         /\ FirstEnvelope(metafields').id = FirstEnvelope(metafields).id
         /\ FirstEnvelope(metafields').value.configured_at
               = FirstEnvelope(metafields).value.configured_at
         /\ \A p \in ConcProcs :
               PutApplied(p) =>
                  FirstEnvelope(metafields').value.line_items
                     = EnvelopeLineItems(proc[p].items)
         /\ (\A p \in ConcProcs : ~PutApplied(p)) => metafields' = metafields
         /\ \A p \in ConcProcs :
               (proc'[p].done /\ AllCallsOk(p)') => proc'[p].err = NoError
      ]_vars

\* both updates have ended without error; the one that started later wrote
\* first, and its line items are gone from the envelope
C14_Witness ==
    /\ \A p \in ConcProcs :
          /\ proc[p].op = "updateOrderAddresses" /\ proc[p].done
          /\ proc[p].err = NoError
          /\ Len(proc[p].calls) = 2
          /\ Cardinality(EnvelopeEntries(proc[p].pre.metafields)) = 1
    /\ proc[1].t < proc[2].t
    /\ proc[1].items # proc[2].items
    /\ Cardinality(EnvelopeEntries(metafields)) = 1
    /\ FirstEnvelope(metafields).value.line_items = EnvelopeLineItems(proc[1].items)
    /\ FirstEnvelope(metafields).value.updated_at = proc[1].t

\* C18: under every interleaving of two concurrent updateOrderAddresses
\* calls, or of an updateOrderAddresses with a saveAddressesToMetafields, on
\* an order that has no envelope at first, the order ends with exactly one
\* multi_address / shipping_addresses entry.
C18_OneEnvelopeAfterRace ==
    (/\ \A p \in ConcProcs :
           /\ proc[p].done /\ proc[p].err = NoError /\ AllCallsOk(p)
           /\ EnvelopeEntries(proc[p].pre.metafields) = {}
     /\ proc[1].op = "updateOrderAddresses"
     /\ proc[2].op \in {"updateOrderAddresses", "saveAddressesToMetafields"}) =>
        Cardinality(EnvelopeEntries(metafields)) = 1

\* the entries of listing mfs other than entry id
OtherEntries(mfs, id) == SelectSeq(mfs, LAMBDA mf : mf.id # id)

\* C15: updateOrderAddresses served on its own first fetches the envelope
\* and issues no other remote call before its write; with no envelope it
\* delegates to saveAddressesToMetafields and exactly one new entry is
\* created; with an envelope it creates and deletes no entry, overwrites the
\* value of the entry with the fetched id and returns that id as
\* metafield_id.
C15_UpdateFetchesThenWrites ==
    req.op = "updateOrderAddresses" =>
        /\ Len(req.calls) >= 1 =>
              (req.calls[1].m = "GET" /\ req.calls[1].r = "metafields")
        /\ Len(req.calls) >= 2 =>
              (req.calls[2].m \in {"POST", "PUT"} /\ req.calls[2].r = "metafields")
        /\ (/\ Len(req.calls) >= 2 /\ req.calls[2].out = 200
            /\ EnvelopeEntries(req.pre.metafields) = {}) =>
              /\ req.calls[2].m = "POST"
              /\ CallsOf("POST", "metafields") = {2}
              /\ Len(metafields) = Len(req.pre.metafields) + 1
              /\ SubSeq(metafields, 1, Len(req.pre.metafields)) = req.pre.metafields
              /\ EnvelopeEntries(metafields) = {Len(metafields)}
        /\ (/\ Len(req.calls) >= 2 /\ req.calls[2].out = 200
            /\ EnvelopeEntries(req.pre.metafields) # {}) =>
              /\ req.calls[2].m = "PUT"
              /\ req.calls[2].arg = FirstEnvelope(req.pre.metafields).id
              /\ Len(req.calls) = 2
              /\ [i \in 1..Len(metafields) |-> metafields[i].id]
                    = [i \in 1..Len(req.pre.metafields) |-> req.pre.metafields[i].id]
              /\ OtherEntries(metafields, req.calls[2].arg)
                    = OtherEntries(req.pre.metafields, req.calls[2].arg)
              /\ \A i \in 1..Len(metafields) :
                    metafields[i].id = req.calls[2].arg =>
                       metafields[i].value.line_items = EnvelopeLineItems(req.items)
              /\ req.done /\ Succeeded
              /\ req.ret.kind = "updated"
              /\ req.ret.metafield_id = FirstEnvelope(req.pre.metafields).id

\* an update has overwritten the envelope it fetched with other line items
C15_Witness ==
    /\ Ended("updateOrderAddresses") /\ Succeeded
    /\ EnvelopeEntries(req.pre.metafields) # {}
    /\ Len(req.calls) = 2 /\ req.calls[2].m = "PUT" /\ req.calls[2].out = 200
    /\ req.ret.kind = "updated"
    /\ req.ret.metafield_id = FirstEnvelope(req.pre.metafields).id
    /\ metafields # req.pre.metafields

\* splitOrderByAddress has returned its result
SplitDone == Ended("splitOrderByAddress") /\ Succeeded /\ req.ret.kind = "split"

\* the position in items of the first line item equal to x
FirstIndex(items, x) ==
    CHOOSE i \in 1..Len(items) : items[i] = x /\ \A j \in 1..(i - 1) : items[j] # x

\* C16: the remote calls of one successful splitOrderByAddress come one
\* after another in this order: the fetch of the original order; for each
\* address group in first-seen order, numbered 1..K, the create of its draft
\* order (carrying part number i for the i-th group) and then the complete
\* of that same draft, before the next group's draft is created; only after
\* all K groups, the calls of the summary note; then the create of a new
\* envelope entry, also when the order already has one.  No group is
\* revisited once completed.
C16_SplitCallOrder ==
    SplitDone =>
        LET K == Len(req.groups)
            post == CHOOSE i \in CallsOf("POST", "metafields") : TRUE
        IN /\ req.calls[1] = [m |-> "GET", r |-> "order", arg |-> 0, out |-> 200]
           /\ \A g, h \in 1..K :
                 g < h => FirstIndex(req.items, req.groups[g].items[1])
                            < FirstIndex(req.items, req.groups[h].items[1])
           /\ Len(drafts) = Len(req.pre.drafts) + K
           /\ \A g \in 1..K :
                 LET draft == drafts[Len(req.pre.drafts) + g]
                 IN /\ req.calls[2 * g]
                         = [m |-> "POST", r |-> "draft_orders", arg |-> g, out |-> 200]
                    /\ req.calls[2 * g + 1]
                         = [m |-> "PUT", r |-> "draft_orders", arg |-> draft.id, out |-> 200]
                    /\ draft.part = g
                    /\ draft.order_id # 0
                    /\ draft.shipping_address = req.groups[g].items[1].address
                    /\ Len(draft.line_items) = Len(req.groups[g].items)
           /\ {i \in 1..Len(req.calls) : req.calls[i].r = "draft_orders"} = 2..(2 * K + 1)
           /\ Cardinality(CallsOf("POST", "metafields")) = 1
           /\ post > 2 * K + 2
           /\ \A i \in (2 * K + 2)..(post - 1) : req.calls[i].r = "order"
           /\ req.calls[2 * K + 2].m = "GET"
           /\ \A i \in CallsOf("PUT", "order") :
                 req.calls[i - 1] = [m |-> "GET", r |-> "order", arg |-> 0, out |-> 200]
           /\ FailedCalls = {} =>
                 /\ post = 2 * K + 4
                 /\ req.calls[2 * K + 3].m = "PUT"
                 /\ Len(req.calls) = 2 * K + 6
           /\ Cardinality(EnvelopeEntries(metafields))
                 = Cardinality(EnvelopeEntries(req.pre.metafields)) + 1
           /\ SubSeq(metafields, 1, Len(req.pre.metafields)) = req.pre.metafields

\* a split of two groups has returned, every call answered with success, on
\* an order that had an envelope already
C16_Witness ==
    /\ SplitDone
    /\ Len(req.groups) = 2
    /\ FailedCalls = {}
    /\ Len(req.calls) = 10
    /\ EnvelopeEntries(req.pre.metafields) # {}
    /\ Cardinality(EnvelopeEntries(metafields)) = 2

\* the groups of the request, in the split's order, that hold a line item
\* whose line_item_id is not on the original order
MissingGroups ==
    {g \in 1..Len(groupLineItemsByAddress(req.items)) :
        \E i \in 1..Len(groupLineItemsByAddress(req.items)[g].items) :
            groupLineItemsByAddress(req.items)[g].items[i].line_item_id
                \notin order.line_items}

FirstMissingGroup == CHOOSE g \in MissingGroups : \A h \in MissingGroups : g <= h

\* C17: if an assignment passed to splitOrderByAddress names a line_item_id
\* that is not among the original order's line items, the call fails with
\* an error and returns no result; the failure is raised before the draft
\* order of the group holding that assignment is created, no draft is
\* created for a later group, neither note nor envelope is written to the
\* original order, and the orders completed for earlier groups stay.
C17_MissingLineItemFailsSplit ==
    (req.op = "splitOrderByAddress" /\ MissingGroups # {}) =>
        /\ \A i \in CallsOf("POST", "draft_orders") : req.calls[i].arg < FirstMissingGroup
        /\ Len(drafts) < Len(req.pre.drafts) + FirstMissingGroup
        /\ \A i \in 1..Len(req.calls) : req.calls[i].m # "DELETE"
        /\ SubSeq(drafts, 1, Len(req.pre.drafts)) = req.pre.drafts
        /\ CallsOf("PUT", "order") = {} /\ CallsOf("POST", "metafields") = {}
        /\ order.notes = req.pre.notes
        /\ metafields = req.pre.metafields
        /\ req.done =>
              /\ ~Succeeded /\ req.err.name = "ApiError"
              /\ req.ret = NullValue
        /\ (req.done /\ FailedCalls = {}) =>
              /\ req.err.statusCode = ServerError
              /\ Len(drafts) = Len(req.pre.drafts) + FirstMissingGroup - 1
              /\ \A d \in 1..Len(drafts) :
                    d > Len(req.pre.drafts) => drafts[d].order_id # 0
              /\ Cardinality(CallsOf("PUT", "draft_orders")) = FirstMissingGroup - 1

\* a split has failed at its second group, whose line item is not on the
\* order, after the order of the first group was completed
C17_Witness ==
    /\ Ended("splitOrderByAddress") /\ ~Succeeded
    /\ MissingGroups # {} /\ FirstMissingGroup = 2
    /\ FailedCalls = {}
    /\ Len(req.calls) = 3
    /\ Len(drafts) = 1 /\ drafts[1].order_id # 0
    /\ req.err.statusCode = ServerError

\* C19: in splitOrderByAddress the shipping address of each created order,
\* in the draft order payload and in created_orders, is the complete address
\* of the first assignment of its group in input order; every assignment
\* placed in that order agrees with it on address1, city, province, zip and
\* country without regard to case, and the name, address2 and phone of the
\* later assignments of the group are not used.
C19_ShippingAddressOfFirst ==
    Grouped =>
        \A c \in 1..Len(req.created) :
            /\ req.created[c].shipping_address = req.groups[c].items[1].address
            /\ drafts[Len(req.pre.drafts) + c].shipping_address
                  = req.groups[c].items[1].address
            /\ [i \in 1..Len(req.created[c].line_items) |->
                    req.created[c].line_items[i].line_item_id]
                  = [i \in 1..Len(req.groups[c].items) |->
                        req.groups[c].items[i].line_item_id]
            /\ \A g \in 1..(c - 1) :
                  FirstIndex(req.items, req.groups[g].items[1])
                     < FirstIndex(req.items, req.groups[c].items[1])
            /\ \A i \in 1..Len(req.groups[c].items) :
                  AddressTuple(req.groups[c].items[i])
                     = AddressTuple(req.groups[c].items[1])

====
